---- MODULE Spec2Model ----
(***************************************************************************)
(* Model of the email agent: the LLM gateway (call_llm), the response      *)
(* interpreters (categorize_email, extract_actions, draft_reply), the      *)
(* thread context collector, the ingestion pipeline (utils.py) and the     *)
(* Streamlit script's handlers over the three JSON documents (app.py).     *)
(*                                                                         *)
(* A Python str is a sequence of characters, each character a TLA+ string  *)
(* naming it ("a", "\n", "BULLET" for U+2022).  A JSON value is a record   *)
(* [t, v]: t is the kind and v a sequence (the characters of a string or   *)
(* of a number's text, the elements of an array, the members of an         *)
(* object).                                                                *)
(***************************************************************************)
EXTENDS Integers, Sequences, FiniteSets, TLC

VARIABLES
    out, cat_ret, act_ret,                    \* interpreters on one gateway output
    env, llm_prompt, llm_ret,                 \* one gateway call
    t_inbox, thread_id, thread_ctx,           \* thread context collector
    inbox, prompts, results, idx, pc, run, inbox0, last_envs, overwrote,   \* ingestion pipeline
    files, sess, sessions, clock, persisted   \* Streamlit sessions over the JSON files

interpVars == <<out, cat_ret, act_ret>>
gatewayVars == <<env, llm_prompt, llm_ret>>
threadVars == <<t_inbox, thread_id, thread_ctx>>
pipeVars == <<inbox, prompts, results, idx, pc, run, inbox0, last_envs, overwrote>>
appVars == <<files, sess, sessions, clock, persisted>>
vars == <<interpVars, gatewayVars, threadVars, pipeVars, appVars>>

(***************************************************************************)
(* Bounds of the model.                                                    *)
(***************************************************************************)
MaxSegs == 3
MaxInbox == 2
MaxRuns == 2
MaxThread == 3
MaxOps == 6
MaxRaceOps == 4

(***************************************************************************)
(* Python str operations.                                                  *)
(***************************************************************************)
BULLET == "BULLET"
QUOTE == "\""

\* str.strip() with no argument removes whitespace.
PyWhitespace == {" ", "\t", "\n", "\r", "\f"}

\* str.splitlines() line boundaries.
LineBreaks == {"\n", "\r", "\f"}

FirstNotIn(s, C) ==
    IF \E i \in 1..Len(s) : s[i] \notin C
    THEN CHOOSE i \in 1..Len(s) : s[i] \notin C /\ \A j \in 1..(i-1) : s[j] \in C
    ELSE Len(s) + 1

LastNotIn(s, C) ==
    IF \E i \in 1..Len(s) : s[i] \notin C
    THEN CHOOSE i \in 1..Len(s) : s[i] \notin C /\ \A j \in (i+1)..Len(s) : s[j] \in C
    ELSE 0

\* s.lstrip(chars)
LStripChars(s, C) == SubSeq(s, FirstNotIn(s, C), Len(s))

\* s.strip(chars): both ends.
StripChars(s, C) == SubSeq(s, FirstNotIn(s, C), LastNotIn(s, C))

\* s.strip()
Strip(s) == StripChars(s, PyWhitespace)

\* s[:n]
Take(s, n) == SubSeq(s, 1, IF Len(s) < n THEN Len(s) ELSE n)

\* s.startswith(p)
StartsWith(s, p) == Len(p) <= Len(s) /\ SubSeq(s, 1, Len(p)) = p

StartsWithAt(s, i, p) == i + Len(p) - 1 <= Len(s) /\ SubSeq(s, i, i + Len(p) - 1) = p

\* s.replace(old, new): left to right, non-overlapping (old is not empty).
RECURSIVE Replace(_, _, _)
Replace(s, old, new) ==
    IF Len(s) < Len(old) THEN s
    ELSE IF SubSeq(s, 1, Len(old)) = old
         THEN new \o Replace(SubSeq(s, Len(old) + 1, Len(s)), old, new)
         ELSE <<s[1]>> \o Replace(Tail(s), old, new)

\* s.splitlines(): the lines without their line breaks; "\r\n" is one break and
\* a trailing break opens no last empty line.
RECURSIVE SplitLinesFrom(_, _, _, _)
SplitLinesFrom(s, i, cur, acc) ==
    IF i > Len(s) THEN (IF cur = <<>> THEN acc ELSE Append(acc, cur))
    ELSE IF s[i] \in LineBreaks
         THEN LET skip == IF s[i] = "\r" /\ i < Len(s) /\ s[i+1] = "\n" THEN 2 ELSE 1
              IN SplitLinesFrom(s, i + skip, <<>>, Append(acc, cur))
         ELSE SplitLinesFrom(s, i + 1, Append(cur, s[i]), acc)

SplitLines(s) == SplitLinesFrom(s, 1, <<>>, <<>>)

\* sep.join(parts)
RECURSIVE Join(_, _)
Join(sep, parts) ==
    IF parts = <<>> THEN <<>>
    ELSE IF Len(parts) = 1 THEN parts[1]
    ELSE parts[1] \o sep \o Join(sep, Tail(parts))

(***************************************************************************)
(* JSON values and json.loads (strict), over strings without backslash     *)
(* escapes, fractions, exponents and NaN/Infinity.                         *)
(***************************************************************************)
JStr(cs) == [t |-> "str", v |-> cs]
JNum(cs) == [t |-> "num", v |-> cs]
JArr(xs) == [t |-> "arr", v |-> xs]
JObj(ms) == [t |-> "obj", v |-> ms]
JLit(name) == [t |-> "lit", v |-> <<name>>]
\* Python None: an absent dict entry as dict.get returns it.
None == JLit("None")

JsonWhitespace == {" ", "\t", "\n", "\r"}
Digits == {"0", "1", "2", "3", "4", "5", "6", "7", "8", "9"}
\* Control characters are not allowed inside a JSON string (strict mode).
ControlChars == {"\t", "\n", "\r", "\f"}

ScanFail == [ok |-> FALSE, next |-> 0, val |-> None]
ScanOk(n, x) == [ok |-> TRUE, next |-> n, val |-> x]

SkipWs(s, i) ==
    IF \E j \in i..Len(s) : s[j] \notin JsonWhitespace
    THEN CHOOSE j \in i..Len(s) :
            s[j] \notin JsonWhitespace /\ \A k \in i..(j-1) : s[k] \in JsonWhitespace
    ELSE IF i > Len(s) + 1 THEN i ELSE Len(s) + 1

\* s[i] is the opening quote.
ScanString(s, i) ==
    IF \E j \in (i+1)..Len(s) : s[j] = QUOTE
    THEN LET j == CHOOSE j \in (i+1)..Len(s) :
                     s[j] = QUOTE /\ \A k \in (i+1)..(j-1) : s[k] # QUOTE
         IN IF \E k \in (i+1)..(j-1) : s[k] \in ControlChars \cup {"\\"}
            THEN ScanFail
            ELSE ScanOk(j + 1, JStr(SubSeq(s, i + 1, j - 1)))
    ELSE ScanFail

\* -?(0|[1-9][0-9]*)
ScanNumber(s, i) ==
    LET d == IF s[i] = "-" THEN i + 1 ELSE i
    IN IF d > Len(s) \/ s[d] \notin Digits THEN ScanFail
       ELSE IF s[d] = "0" THEN ScanOk(d + 1, JNum(<<"0">>))   \* int("-0") is 0
       ELSE LET e == IF \E j \in d..Len(s) : s[j] \notin Digits
                     THEN (CHOOSE j \in d..Len(s) :
                              s[j] \notin Digits /\ \A k \in d..(j-1) : s[k] \in Digits) - 1
                     ELSE Len(s)
            IN ScanOk(e + 1, JNum(SubSeq(s, i, e)))

\* dict(pairs): a repeated key keeps its first place and its last value.
RECURSIVE DictFromPairs(_, _)
DictFromPairs(pairs, acc) ==
    IF pairs = <<>> THEN acc
    ELSE LET p == pairs[1]
         IN IF \E i \in 1..Len(acc) : acc[i].k = p.k
            THEN DictFromPairs(Tail(pairs),
                    [i \in 1..Len(acc) |-> IF acc[i].k = p.k THEN p ELSE acc[i]])
            ELSE DictFromPairs(Tail(pairs), Append(acc, p))

RECURSIVE ScanOnce(_, _), ScanArray(_, _, _), ScanObject(_, _, _)
ScanOnce(s, i) ==
    IF i > Len(s) THEN ScanFail
    ELSE IF s[i] = QUOTE THEN ScanString(s, i)
    ELSE IF s[i] = "[" THEN
        LET j == SkipWs(s, i + 1)
        IN IF j <= Len(s) /\ s[j] = "]" THEN ScanOk(j + 1, JArr(<<>>))
           ELSE ScanArray(s, j, <<>>)
    ELSE IF s[i] = "{" THEN
        LET j == SkipWs(s, i + 1)
        IN IF j <= Len(s) /\ s[j] = "}" THEN ScanOk(j + 1, JObj(<<>>))
           ELSE ScanObject(s, j, <<>>)
    ELSE IF StartsWithAt(s, i, <<"n", "u", "l", "l">>) THEN ScanOk(i + 4, JLit("null"))
    ELSE IF StartsWithAt(s, i, <<"t", "r", "u", "e">>) THEN ScanOk(i + 4, JLit("true"))
    ELSE IF StartsWithAt(s, i, <<"f", "a", "l", "s", "e">>) THEN ScanOk(i + 5, JLit("false"))
    ELSE IF s[i] \in Digits \cup {"-"} THEN ScanNumber(s, i)
    ELSE ScanFail

\* A value is expected at i; then "]" ends the array and "," asks for another.
ScanArray(s, i, acc) ==
    LET r == ScanOnce(s, i)
    IN IF ~r.ok THEN ScanFail
       ELSE LET j == SkipWs(s, r.next)
            IN IF j > Len(s) THEN ScanFail
               ELSE IF s[j] = "]" THEN ScanOk(j + 1, JArr(Append(acc, r.val)))
               ELSE IF s[j] = "," THEN ScanArray(s, SkipWs(s, j + 1), Append(acc, r.val))
               ELSE ScanFail

\* A "key" : value member is expected at i.
ScanObject(s, i, acc) ==
    IF i > Len(s) \/ s[i] # QUOTE THEN ScanFail
    ELSE LET k == ScanString(s, i)
         IN IF ~k.ok THEN ScanFail
            ELSE LET c == SkipWs(s, k.next)
                 IN IF c > Len(s) \/ s[c] # ":" THEN ScanFail
                    ELSE LET r == ScanOnce(s, SkipWs(s, c + 1))
                         IN IF ~r.ok THEN ScanFail
                            ELSE LET j == SkipWs(s, r.next)
                                     m == Append(acc, [k |-> k.val.v, val |-> r.val])
                                 IN IF j > Len(s) THEN ScanFail
                                    ELSE IF s[j] = "}"
                                         THEN ScanOk(j + 1, JObj(DictFromPairs(m, <<>>)))
                                    ELSE IF s[j] = ","
                                         THEN ScanObject(s, SkipWs(s, j + 1), m)
                                    ELSE ScanFail

\* json.loads(s): one value, whitespace around it, nothing else.  ok = FALSE
\* stands for the JSONDecodeError.
LoadsResult(s, r) ==
    IF r.ok /\ SkipWs(s, r.next) = Len(s) + 1
    THEN [ok |-> TRUE, val |-> r.val]
    ELSE [ok |-> FALSE, val |-> None]

JsonLoads(s) == LoadsResult(s, ScanOnce(s, SkipWs(s, 1)))

(***************************************************************************)
(* Python dict, subscript and truth value on JSON values.                  *)
(***************************************************************************)
K_body == <<"b", "o", "d", "y">>
K_from == <<"f", "r", "o", "m">>
K_date == <<"d", "a", "t", "e">>
K_subject == <<"s", "u", "b", "j", "e", "c", "t">>
K_thread_id == <<"t", "h", "r", "e", "a", "d", "_", "i", "d">>
K_archived == <<"a", "r", "c", "h", "i", "v", "e", "d">>
K_category == <<"c", "a", "t", "e", "g", "o", "r", "y">>
K_action_items == <<"a", "c", "t", "i", "o", "n", "_", "i", "t", "e", "m", "s">>
K_text == <<"t", "e", "x", "t">>
K_template == <<"t", "e", "m", "p", "l", "a", "t", "e">>
K_name == <<"n", "a", "m", "e">>
K_categorize == <<"c", "a", "t", "e", "g", "o", "r", "i", "z", "e">>
K_extract_actions == <<"e", "x", "t", "r", "a", "c", "t", "_", "a", "c", "t", "i", "o", "n", "s">>
K_draft_reply == <<"d", "r", "a", "f", "t", "_", "r", "e", "p", "l", "y">>
K_chat == <<"c", "h", "a", "t">>
K_email_idx == <<"e", "m", "a", "i", "l", "_", "i", "d", "x">>
K_error == <<"e", "r", "r", "o", "r">>
K_drafts == <<"d", "r", "a", "f", "t", "s">>
K_analyses == <<"a", "n", "a", "l", "y", "s", "e", "s">>
K_time == <<"t", "i", "m", "e">>
K_type == <<"t", "y", "p", "e">>
K_result == <<"r", "e", "s", "u", "l", "t">>
K_output == <<"o", "u", "t", "p", "u", "t">>
K_question == <<"q", "u", "e", "s", "t", "i", "o", "n">>
K_metadata == <<"m", "e", "t", "a", "d", "a", "t", "a">>

\* A Python int made by the code (an index, a clock reading).
JInt(n) == [t |-> "int", v |-> <<n>>]
PyTrue == JLit("true")
PyFalse == JLit("false")

\* The outcome of a call: a returned value, or an exception with its message.
Return(x) == [raised |-> FALSE, val |-> x]
Raise(msg) == [raised |-> TRUE, val |-> JStr(msg)]

IsDict(d) == d.t = "obj"
IsStr(x) == x.t = "str"
HasKey(d, k) == \E i \in 1..Len(d.v) : d.v[i].k = k

\* d.get(k, default) on a dict d.
DictGet(d, k, default) ==
    IF HasKey(d, k) THEN d.v[CHOOSE i \in 1..Len(d.v) : d.v[i].k = k].val ELSE default

\* d[k] = x on a dict d: in place when the key exists, else at the end.
DictSet(d, k, x) ==
    IF HasKey(d, k)
    THEN JObj([i \in 1..Len(d.v) |-> IF d.v[i].k = k THEN [k |-> k, val |-> x] ELSE d.v[i]])
    ELSE JObj(Append(d.v, [k |-> k, val |-> x]))

\* {k1: x1, ...}
Dict(pairs) == JObj([i \in 1..Len(pairs) |-> [k |-> pairs[i][1], val |-> pairs[i][2]]])

\* d[k]: KeyError for a missing key, TypeError when d is no dict (a str, a list or
\* a number subscripted by a str).
Subscript(d, k) ==
    IF ~IsDict(d) THEN Raise(<<"T", "y", "p", "e", "E", "r", "r", "o", "r">>)
    ELSE IF ~HasKey(d, k) THEN Raise(<<"'">> \o k \o <<"'">>)
    ELSE Return(DictGet(d, k, None))

\* bool(x)
Truthy(x) ==
    CASE x.t = "lit" -> x = PyTrue
      [] x.t = "int" -> x.v[1] # 0
      [] x.t = "num" -> \E i \in 1..Len(x.v) : x.v[i] \notin {"0", "-"}
      [] OTHER -> x.v # <<>>

\* str(x) as an f-string writes it, for the values an inbox field holds.
S_None == <<"N", "o", "n", "e">>
Str(x) ==
    CASE x.t = "str" -> x.v
      [] x.t = "num" -> x.v
      [] x = None -> S_None
      [] OTHER -> <<"<", x.t, ">">>

(***************************************************************************)
(* LLM gateway: call_llm.  env holds what the environment and the SDK do   *)
(* in this call.                                                           *)
(***************************************************************************)
MOCK_PREFIX == <<"[", "M", "O", "C", "K", " ", "R", "E", "S", "P", "O", "N", "S", "E", "]", " ">>
MOCK_SUFFIX == <<".", ".", ".">>
ERROR_PREFIX == <<"[", "E", "R", "R", "O", "R", "]", " ", "G", "e", "m", "i", "n", "i", " ", "S", "D", "K", " ", "c", "a", "l", "l", " ", "f", "a", "i", "l", "e", "d", ":", " ">>
NoConfigureMsg == <<"'", "N", "o", "n", "e", "T", "y", "p", "e", "'", " ", "o", "b", "j", "e", "c", "t", " ", "h", "a", "s", " ", "n", "o", " ", "a", "t", "t", "r", "i", "b", "u", "t", "e", " ", "'", "c", "o", "n", "f", "i", "g", "u", "r", "e", "'">>
MockPromptChars == 150
DumpChars == 2000

\* The body of the try block.  kind "exception" is an exception raised inside it.
\* hasattr(response, "text") is False exactly when reading the attribute raises
\* AttributeError (text = "absent"); any other exception of the property
\* (text = "raise", the SDK's ValueError for a blocked response) leaves hasattr.
LlmTry(prompt, e) ==
    IF ~e.sdk THEN [kind |-> "exception", val |-> NoConfigureMsg]
    ELSE IF e.configure = "raise" \/ e.model = "raise" \/ e.generate = "raise"
         THEN [kind |-> "exception", val |-> e.errmsg]
    ELSE IF e.text = "raise" THEN [kind |-> "exception", val |-> e.errmsg]
    ELSE IF e.text = "value" /\ e.text_val # <<>>
         THEN [kind |-> "return", val |-> Strip(e.text_val)]
    ELSE IF e.candidates = "raise" THEN [kind |-> "exception", val |-> e.errmsg]
    ELSE IF e.candidates = "list"
         THEN IF e.cand_text = "raise"
              THEN [kind |-> "exception", val |-> e.errmsg]
              ELSE [kind |-> "return", val |-> Strip(e.cand_val)]
    ELSE [kind |-> "return", val |-> Take(e.dump, DumpChars)]

\* The mutant: the try block ends once generate_content has returned, and the
\* response is read after it.
ExceptReadOutsideTry(e, r) ==
    IF r.kind = "exception"
    THEN IF e.sdk /\ e.configure = "ok" /\ e.model = "ok" /\ e.generate = "ok"
         THEN Raise(r.val)
         ELSE Return(JStr(ERROR_PREFIX \o r.val))
    ELSE Return(JStr(r.val))

\* The mutant: no except clause.
ExceptMissing(e, r) ==
    IF r.kind = "exception" THEN Raise(r.val) ELSE Return(JStr(r.val))

\* except Exception as e: the outcome r of the try block under e becomes the
\* returned str.
Except(e, r) ==
    IF r.kind = "exception"
    THEN Return(JStr(ERROR_PREFIX \o r.val))
    ELSE Return(JStr(r.val))

\* call_llm(prompt)
call_llm(prompt, e) ==
    IF ~e.api_key
    THEN Return(JStr(MOCK_PREFIX \o Take(prompt, MockPromptChars) \o MOCK_SUFFIX))
    ELSE Except(e, LlmTry(prompt, e))

(***************************************************************************)
(* Response interpreters.                                                  *)
(***************************************************************************)
BACKTICK == "BACKTICK"
FENCE == <<BACKTICK, BACKTICK, BACKTICK>>
FENCE_JSON == FENCE \o <<"j", "s", "o", "n">>
EMAIL_LABEL_CAT == <<"\n", "\n", "E", "m", "a", "i", "l", ":", "\n">>
EMAIL_LABEL == <<"\n", "\n", "E", "M", "A", "I", "L", ":", "\n">>
THREAD_LABEL == <<"\n", "\n", "T", "H", "R", "E", "A", "D", " ", "C", "O", "N", "T", "E", "X", "T", ":", "\n">>
BulletChars == {" ", "-", BULLET, "\t"}
TypeErrorMsg == <<"T", "y", "p", "e", "E", "r", "r", "o", "r">>
AttributeErrorMsg == <<"A", "t", "t", "r", "i", "b", "u", "t", "e", "E", "r", "r", "o", "r">>

\* template + label + email.get("body", ""): the exception the expression raises,
\* or the prompt.
BuildPrompt(email, prompt_template, label) ==
    IF ~IsStr(prompt_template) THEN Raise(TypeErrorMsg)
    ELSE IF ~IsDict(email) THEN Raise(AttributeErrorMsg)
    ELSE LET body == DictGet(email, K_body, JStr(<<>>))
         IN IF ~IsStr(body) THEN Raise(TypeErrorMsg)
            ELSE Return(JStr(prompt_template.v \o label \o body.v))

\* out.replace("```json", "").replace("```", "").strip()
Cleaned(o) == Strip(Replace(Replace(o, FENCE_JSON, <<>>), FENCE, <<>>))

\* {"text": o}
TextWrapper(o) == Dict(<< <<K_text, JStr(o)>> >>)

\* try: return json.loads(...) except: return fallback
ParsedOr(parsed, fallback) == IF parsed.ok THEN parsed.val ELSE fallback

\* The mutant: the fallback wraps the cleaned text.
CategorizeOutputCleaned(o) == ParsedOr(JsonLoads(Cleaned(o)), TextWrapper(Cleaned(o)))

\* categorize_email from the gateway's output on: the fences removed, the text
\* parsed, and the raw output wrapped when it does not parse.
CategorizeOutput(o) == ParsedOr(JsonLoads(Cleaned(o)), TextWrapper(o))

\* An exception of the gateway call r leaves the interpreter; its output is
\* interpreted otherwise.
CategorizeReply(r) == IF r.raised THEN r ELSE Return(CategorizeOutput(r.val.v))

CategorizePrompt(p, e) == IF p.raised THEN p ELSE CategorizeReply(call_llm(p.val.v, e))

categorize_email(email, prompt_template, e) ==
    CategorizePrompt(BuildPrompt(email, prompt_template, EMAIL_LABEL_CAT), e)

\* [l.strip(" -BULLET\t") for l in out.splitlines() if l.strip()]
BulletLines(o) ==
    LET lines == SelectSeq(SplitLines(o), LAMBDA l : Strip(l) # <<>>)
    IN JArr([i \in 1..Len(lines) |-> JStr(StripChars(lines[i], BulletChars))])

\* extract_actions from the gateway's output on.
ExtractOutput(o) ==
    IF StartsWith(Strip(o), <<"[">>)
    THEN ParsedOr(JsonLoads(o), BulletLines(o))
    ELSE BulletLines(o)

ExtractReply(r) == IF r.raised THEN r ELSE Return(ExtractOutput(r.val.v))

ExtractPrompt(p, e) == IF p.raised THEN p ELSE ExtractReply(call_llm(p.val.v, e))

extract_actions(email, prompt_template, e) ==
    ExtractPrompt(BuildPrompt(email, prompt_template, EMAIL_LABEL), e)

DraftReply(r) == IF r.raised THEN r ELSE Return(JStr(Strip(r.val.v)))

DraftPrompt(p, e, thread_context) ==
    IF p.raised THEN p
    ELSE DraftReply(call_llm(IF Truthy(thread_context)
                             THEN p.val.v \o THREAD_LABEL \o thread_context.v
                             ELSE p.val.v, e))

\* draft_reply: thread_context is None or a str.
draft_reply(email, prompt_template, e, thread_context) ==
    DraftPrompt(BuildPrompt(email, prompt_template, EMAIL_LABEL), e, thread_context)

(***************************************************************************)
(* Thread context collector.                                               *)
(***************************************************************************)
ThreadBlock(m) ==
    <<"F", "R", "O", "M", ":", " ">> \o Str(DictGet(m, K_from, None))
    \o <<"\n", "D", "A", "T", "E", ":", " ">> \o Str(DictGet(m, K_date, None))
    \o <<"\n">> \o Str(DictGet(m, K_body, None))
    \o <<"\n", "-", "-", "-", "\n">>

\* The mutant: the blocks come out sorted by date, oldest first (dates are digit
\* strings of one length).
DigitSeq == <<"0", "1", "2", "3", "4", "5", "6", "7", "8", "9">>
DigitValue(c) == CHOOSE i \in 1..Len(DigitSeq) : DigitSeq[i] = c
DateLess(a, b) ==
    \E i \in 1..Len(a) :
        /\ i <= Len(b)
        /\ DigitValue(a[i]) < DigitValue(b[i])
        /\ \A j \in 1..(i-1) : a[j] = b[j]

RECURSIVE InsertByDate(_, _)
InsertByDate(sorted, m) ==
    IF sorted = <<>> THEN <<m>>
    ELSE IF DateLess(DictGet(m, K_date, None).v, DictGet(sorted[1], K_date, None).v)
         THEN <<m>> \o sorted
         ELSE <<sorted[1]>> \o InsertByDate(Tail(sorted), m)

RECURSIVE SortByDate(_)
SortByDate(ms) ==
    IF ms = <<>> THEN <<>> ELSE InsertByDate(SortByDate(Tail(ms)), ms[1])

MatchingChronological(box, tid) ==
    SortByDate(SelectSeq(box, LAMBDA m : DictGet(m, K_thread_id, None) = tid))

\* The messages of the loop whose thread_id equals tid, in stored order.
Matching(box, tid) == SelectSeq(box, LAMBDA m : DictGet(m, K_thread_id, None) = tid)

collect_thread_context(box, tid) ==
    IF ~Truthy(tid) THEN Return(None)
    ELSE IF \E i \in 1..Len(box) : ~IsDict(box[i]) THEN Raise(AttributeErrorMsg)
    ELSE LET ms == Matching(box, tid)
             msgs == [i \in 1..Len(ms) |-> ThreadBlock(ms[i])]
         IN IF msgs = <<>> THEN Return(None) ELSE Return(JStr(Join(<<"\n">>, msgs)))

(***************************************************************************)
(* Values of the variables of a component that a specification leaves out. *)
(***************************************************************************)
NotRun == [raised |-> FALSE, val |-> JLit("notrun")]
Parked == <<>>
InterpParked == out = Parked /\ cat_ret = Parked /\ act_ret = Parked
GatewayParked == env = Parked /\ llm_prompt = Parked /\ llm_ret = Parked
ThreadParked == t_inbox = Parked /\ thread_id = Parked /\ thread_ctx = Parked
PipeParked ==
    /\ inbox = Parked /\ prompts = Parked /\ results = Parked /\ idx = 0
    /\ pc = "parked" /\ run = 0 /\ inbox0 = Parked /\ last_envs = Parked
    /\ overwrote = FALSE
AppParked ==
    /\ files = Parked /\ sess = Parked /\ sessions = {} /\ clock = 0 /\ persisted = Parked

\* All concatenations of at most n of the segments S.
RECURSIVE Concats(_, _)
Concats(S, n) ==
    IF n = 0 THEN {<<>>}
    ELSE LET prev == Concats(S, n - 1) IN prev \cup {p \o x : p \in prev, x \in S}

(***************************************************************************)
(* The SDK's behaviour in one call.                                        *)
(***************************************************************************)
ErrMsg == <<"b", "o", "o", "m">>
ResponseDump == <<"<", "r", "e", "s", "p", "o", "n", "s", "e", ">">>

LiveEnv == [api_key |-> TRUE, sdk |-> TRUE, configure |-> "ok", model |-> "ok",
            generate |-> "ok", text |-> "absent", text_val |-> <<>>,
            candidates |-> "absent", cand_text |-> "value", cand_val |-> <<>>,
            errmsg |-> ErrMsg, dump |-> ResponseDump]
\* No credential: mock mode.
MockEnv == [LiveEnv EXCEPT !.api_key = FALSE]
\* The hosted model cannot be reached.
FailEnv == [LiveEnv EXCEPT !.generate = "raise"]
\* The response carries the text s.
TextEnv(s) == [LiveEnv EXCEPT !.text = "value", !.text_val = s]
\* The response has neither text nor candidates and prints as s.
DumpEnv(s) == [LiveEnv EXCEPT !.dump = s]

GatewayEnvs ==
    [api_key : BOOLEAN, sdk : BOOLEAN, configure : {"ok", "raise"},
     model : {"ok", "raise"}, generate : {"ok", "raise"},
     text : {"absent", "raise", "value"}, text_val : {<<>>, <<" ", "o", "k", "\n">>},
     candidates : {"absent", "raise", "empty", "list"},
     cand_text : {"raise", "value"}, cand_val : {<<"c", " ">>},
     errmsg : {ErrMsg}, dump : {ResponseDump}]

GatewayPrompts == {<<"h", "i">>, [i \in 1..(MockPromptChars + 2) |-> "x"]}

(***************************************************************************)
(* SpecGateway: one call of call_llm under every behaviour of the SDK.     *)
(***************************************************************************)
InitGateway ==
    /\ env \in GatewayEnvs
    /\ llm_prompt \in GatewayPrompts
    /\ llm_ret = NotRun
    /\ InterpParked /\ ThreadParked /\ PipeParked /\ AppParked

CallGateway ==
    /\ llm_ret = NotRun
    /\ llm_ret' = call_llm(llm_prompt, env)
    /\ UNCHANGED <<env, llm_prompt, interpVars, threadVars, pipeVars, appVars>>

NextGateway == CallGateway
SpecGateway == InitGateway /\ [][NextGateway]_vars

(***************************************************************************)
(* SpecCategorize, SpecExtract: one interpreter call on every short        *)
(* gateway output.  out is the function's local variable of that name.     *)
(***************************************************************************)
SampleEmail == Dict(<< <<K_from, JStr(<<"a">>)>>, <<K_body, JStr(<<"h", "i">>)>>,
                       <<K_archived, PyFalse>> >>)
SampleTemplate == JStr(<<"T">>)

CatSegments ==
    {FENCE_JSON, FENCE, <<"{", "}">>, <<"[">>, <<"]">>, <<"1">>, <<" ">>, <<"\n">>, <<"a">>}
ActSegments ==
    {<<"[">>, <<"]">>, <<"1">>, <<",">>, <<"-">>, <<BULLET>>, <<"\t">>, <<" ">>,
     <<"\n">>, <<"a">>}

ReplyEnvs(S) == {TextEnv(x) : x \in Concats(S, MaxSegs)} \cup
                {DumpEnv(x) : x \in Concats(S, MaxSegs)}

InitCategorize ==
    /\ env \in ReplyEnvs(CatSegments)
    /\ out = Parked /\ cat_ret = NotRun /\ act_ret = Parked
    /\ llm_prompt = Parked /\ llm_ret = Parked
    /\ ThreadParked /\ PipeParked /\ AppParked

Categorize ==
    /\ cat_ret = NotRun
    /\ out' = call_llm(BuildPrompt(SampleEmail, SampleTemplate, EMAIL_LABEL_CAT).val.v, env).val.v
    /\ cat_ret' = categorize_email(SampleEmail, SampleTemplate, env)
    /\ UNCHANGED <<act_ret, gatewayVars, threadVars, pipeVars, appVars>>

NextCategorize == Categorize
SpecCategorize == InitCategorize /\ [][NextCategorize]_vars

InitExtract ==
    /\ env \in ReplyEnvs(ActSegments)
    /\ out = Parked /\ cat_ret = Parked /\ act_ret = NotRun
    /\ llm_prompt = Parked /\ llm_ret = Parked
    /\ ThreadParked /\ PipeParked /\ AppParked

ExtractActions ==
    /\ act_ret = NotRun
    /\ out' = call_llm(BuildPrompt(SampleEmail, SampleTemplate, EMAIL_LABEL).val.v, env).val.v
    /\ act_ret' = extract_actions(SampleEmail, SampleTemplate, env)
    /\ UNCHANGED <<cat_ret, gatewayVars, threadVars, pipeVars, appVars>>

NextExtract == ExtractActions
SpecExtract == InitExtract /\ [][NextExtract]_vars

(***************************************************************************)
(* Properties of the gateway and the interpreters.                         *)
(***************************************************************************)
\* An exception is raised somewhere in the try block of call_llm under e.
ExceptionDuringCall(e) ==
    /\ e.api_key
    /\ \/ ~e.sdk
       \/ "raise" \in {e.configure, e.model, e.generate}
       \/ e.text = "raise"
       \/ /\ ~(e.text = "value" /\ e.text_val # <<>>)
          /\ \/ e.candidates = "raise"
             \/ e.candidates = "list" /\ e.cand_text = "raise"

\* C4: call_llm never raises for a str prompt: whatever the SDK does, the caller
\* receives a str, and when an exception occurred during the call the str starts
\* with the error marker.
C4_GatewayNeverRaises ==
    llm_ret # NotRun =>
        /\ ~llm_ret.raised
        /\ IsStr(llm_ret.val)
        /\ ExceptionDuringCall(env) => StartsWith(llm_ret.val.v, ERROR_PREFIX)

\* C4's case: generate_content returned, reading the response's text raised, and
\* the caller holds the error string.
C4_Witness ==
    /\ llm_ret # NotRun
    /\ env.api_key /\ env.sdk
    /\ "raise" \notin {env.configure, env.model, env.generate}
    /\ env.text = "raise"
    /\ llm_ret = Return(JStr(ERROR_PREFIX \o env.errmsg))

\* C5 as stated: every gateway output that is not valid JSON comes back as
\* {"text": <that output>}, never as a parsed structure.
C5_NonJsonIsWrapped ==
    (cat_ret # NotRun /\ ~JsonLoads(out).ok) => cat_ret = Return(TextWrapper(out))

\* C5 amended: an output that is still not valid JSON once its code-fence markers
\* are removed and it is trimmed comes back as {"text": <the raw output>}; an
\* output that is valid JSON after that comes back as the parsed structure.
C5_UnparseableIsWrapped ==
    cat_ret # NotRun =>
        /\ ~JsonLoads(Cleaned(out)).ok => cat_ret = Return(TextWrapper(out))
        /\ JsonLoads(Cleaned(out)).ok => cat_ret = Return(JsonLoads(Cleaned(out)).val)

\* C5's case: an unparseable output with a fence in it and whitespace around it
\* is wrapped as it came.
C5_Witness ==
    /\ cat_ret # NotRun
    /\ ~JsonLoads(Cleaned(out)).ok
    /\ \E i \in 1..Len(out) : out[i] = BACKTICK
    /\ out # <<>> /\ out[1] \in PyWhitespace
    /\ cat_ret.val = TextWrapper(out)

\* s.rstrip(chars)
RStripChars(s, C) == SubSeq(s, 1, LastNotIn(s, C))

\* What C6 says an item is: the line without its leading bullet markers and
\* without the whitespace around it.
LineItem(l) == RStripChars(LStripChars(l, BulletChars \cup PyWhitespace), PyWhitespace)

\* The fallback of extract_actions applies to o.
FallbackApplies(o) == ~StartsWith(Strip(o), <<"[">>) \/ ~JsonLoads(o).ok

\* C6 as stated: in the fallback, extract_actions returns one item per non-blank
\* line, in line order, each the line with only its leading bullet markers and
\* its surrounding whitespace removed.
C6_FallbackItemsAreLines ==
    (act_ret # NotRun /\ FallbackApplies(out)) =>
        LET lines == SelectSeq(SplitLines(out), LAMBDA l : Strip(l) # <<>>)
        IN act_ret = Return(JArr([i \in 1..Len(lines) |-> JStr(LineItem(lines[i]))]))

(***************************************************************************)
(* Ingestion pipeline: run_ingestion_pipeline.                             *)
(***************************************************************************)
ErrorRecord(i, msg) == Dict(<< <<K_email_idx, JInt(i)>>, <<K_error, msg>> >>)
SuccessRecord(i, category, actions) ==
    Dict(<< <<K_email_idx, JInt(i)>>, <<K_category, category>>, <<K_action_items, actions>> >>)

\* prompts[key]["template"]
TemplateOf(prm, key) ==
    LET entry == Subscript(prm, key)
    IN IF entry.raised THEN entry ELSE Subscript(entry.val, K_template)

\* The first exception of the try block's statements, in their order.
FirstRaised(rs) ==
    IF \E k \in 1..Len(rs) : rs[k].raised
    THEN rs[CHOOSE k \in 1..Len(rs) : rs[k].raised /\ \A j \in 1..(k-1) : ~rs[j].raised]
    ELSE Return(None)

\* The new email of a successful iteration.
Written(email, category, actions) ==
    DictSet(DictSet(email, K_category, category), K_action_items, actions)

\* The mutant: the except clause swallows the exception and records nothing.
StepOutcomeSilentError(box, res, i, failure, category, actions) ==
    IF failure.raised
    THEN [inbox |-> box, results |-> res]
    ELSE [inbox |-> [box EXCEPT ![i + 1] = Written(box[i + 1], category.val, actions.val)],
          results |-> Append(res, SuccessRecord(i, category.val, actions.val))]

\* The mutant: the category is written as soon as categorize_email has returned.
StepOutcomeEagerWrite(box, res, i, failure, category, actions) ==
    IF failure.raised
    THEN [inbox |-> IF actions.raised /\ ~category.raised /\ failure.val = actions.val
                    THEN [box EXCEPT ![i + 1] = DictSet(box[i + 1], K_category, category.val)]
                    ELSE box,
          results |-> Append(res, ErrorRecord(i, failure.val))]
    ELSE [inbox |-> [box EXCEPT ![i + 1] = Written(box[i + 1], category.val, actions.val)],
          results |-> Append(res, SuccessRecord(i, category.val, actions.val))]

\* The mutant: the new action items are added to the ones the email holds.
StepOutcomeAccumulate(box, res, i, failure, category, actions) ==
    IF failure.raised
    THEN [inbox |-> box, results |-> Append(res, ErrorRecord(i, failure.val))]
    ELSE [inbox |-> [box EXCEPT ![i + 1] =
                        Written(box[i + 1], category.val,
                                JArr(DictGet(box[i + 1], K_action_items, JArr(<<>>)).v
                                     \o actions.val.v))],
          results |-> Append(res, SuccessRecord(i, category.val, actions.val))]

\* The end of one iteration: failure is the first exception of the try block (or
\* none), category and actions the interpreters' outcomes.
StepOutcome(box, res, i, failure, category, actions) ==
    IF failure.raised
    THEN [inbox |-> box, results |-> Append(res, ErrorRecord(i, failure.val))]
    ELSE [inbox |-> [box EXCEPT ![i + 1] = Written(box[i + 1], category.val, actions.val)],
          results |-> Append(res, SuccessRecord(i, category.val, actions.val))]

StepCalls(box, res, i, cat_prompt, act_prompt, category, actions) ==
    StepOutcome(box, res, i, FirstRaised(<<cat_prompt, act_prompt, category, actions>>),
                category, actions)

StepPrompts(box, res, i, cat_prompt, act_prompt, eC, eA) ==
    StepCalls(box, res, i, cat_prompt, act_prompt,
              categorize_email(box[i + 1], cat_prompt.val, eC),
              extract_actions(box[i + 1], act_prompt.val, eA))

\* One iteration of the loop, for the email at Python index i: the inbox and the
\* results after it.  eC and eA are the SDK's behaviour in the two gateway calls.
IngestStep(box, prm, res, i, eC, eA) ==
    StepPrompts(box, res, i, TemplateOf(prm, K_categorize),
                TemplateOf(prm, K_extract_actions), eC, eA)

\* The whole loop from index i on; envs[k] is the pair <<eC, eA>> of email k.
RECURSIVE RunFrom(_, _, _, _, _), RunNext(_, _, _, _)
RunNext(r, prm, i, envs) == RunFrom(r.inbox, prm, r.results, i, envs)
RunFrom(box, prm, res, i, envs) ==
    IF i >= Len(box) THEN [inbox |-> box, results |-> res]
    ELSE RunNext(IngestStep(box, prm, res, i, envs[i + 1][1], envs[i + 1][2]),
                 prm, i + 1, envs)

run_ingestion_pipeline(box, prm, envs) == RunFrom(box, prm, <<>>, 0, envs)

(***************************************************************************)
(* SpecPipeline: runs of the pipeline, one after the other on the same     *)
(* inbox, iteration by iteration.                                          *)
(***************************************************************************)
Entry(name, template) == Dict(<< <<K_name, JStr(name)>>, <<K_template, template>> >>)
GoodPrompts ==
    Dict(<< <<K_categorize, Entry(<<"C">>, JStr(<<"c", "a", "t">>))>>,
            <<K_extract_actions, Entry(<<"A">>, JStr(<<"a", "c", "t">>))>> >>)
\* The prompts document has lost its categorize entry.
NoCategorizePrompts ==
    Dict(<< <<K_extract_actions, Entry(<<"A">>, JStr(<<"a", "c", "t">>))>> >>)
\* The extract_actions template is a number: categorize_email succeeds and
\* extract_actions raises.
BadActTemplatePrompts ==
    Dict(<< <<K_categorize, Entry(<<"C">>, JStr(<<"c", "a", "t">>))>>,
            <<K_extract_actions, Entry(<<"A">>, JNum(<<"1">>))>> >>)
PromptConfigs == {GoodPrompts, NoCategorizePrompts, BadActTemplatePrompts}

OldCategory == TextWrapper(<<"o", "l", "d">>)
OldActions == JArr(<<JStr(<<"o", "l", "d">>)>>)
FreshEmail == Dict(<< <<K_body, JStr(<<"h", "i">>)>>, <<K_archived, PyFalse>> >>)
ProcessedEmail ==
    Dict(<< <<K_body, JStr(<<"y", "o">>)>>, <<K_archived, PyFalse>>,
            <<K_category, OldCategory>>, <<K_action_items, OldActions>> >>)
\* Malformed entries of inbox.json: a body that is no str, an entry that is no
\* object.
BadBodyEmail == Dict(<< <<K_body, JNum(<<"1">>)>>, <<K_category, OldCategory>> >>)
NotDictEmail == JStr(<<"x">>)
PipelineEmails == {FreshEmail, ProcessedEmail, BadBodyEmail, NotDictEmail}

PipelineEnvs == {MockEnv, FailEnv}

InitPipeline ==
    /\ inbox \in UNION {[1..n -> PipelineEmails] : n \in 0..MaxInbox}
    /\ prompts \in PromptConfigs
    /\ results = <<>> /\ idx = 0 /\ pc = "ready" /\ run = 0
    /\ inbox0 = inbox /\ last_envs = <<>> /\ overwrote = FALSE
    /\ InterpParked /\ GatewayParked /\ ThreadParked /\ AppParked

\* run_ingestion_pipeline is called: results = [].
StartRun ==
    /\ pc = "ready" /\ run < MaxRuns
    /\ pc' = "loop" /\ run' = run + 1
    /\ results' = <<>> /\ idx' = 0 /\ last_envs' = <<>> /\ overwrote' = FALSE
    /\ UNCHANGED <<inbox, prompts, inbox0, interpVars, gatewayVars, threadVars, appVars>>

\* The email held a category and action items and new holds other ones.
Overwrites(email, new) ==
    /\ IsDict(email) /\ HasKey(email, K_category) /\ HasKey(email, K_action_items)
    /\ DictGet(new, K_category, None) # DictGet(email, K_category, None)
    /\ DictGet(new, K_action_items, None) # DictGet(email, K_action_items, None)

Stepped(r) ==
    /\ inbox' = r.inbox
    /\ results' = r.results
    /\ overwrote' = (overwrote \/ Overwrites(inbox[idx + 1], r.inbox[idx + 1]))

\* One iteration.  overwrote records that an iteration of this run replaced a
\* category and action items the email already held by different ones.
ProcessEmail ==
    /\ pc = "loop" /\ idx < Len(inbox)
    /\ \E eC \in PipelineEnvs, eA \in PipelineEnvs :
          /\ Stepped(IngestStep(inbox, prompts, results, idx, eC, eA))
          /\ last_envs' = <<eC, eA>>
    /\ idx' = idx + 1
    /\ UNCHANGED <<prompts, pc, run, inbox0, interpVars, gatewayVars, threadVars, appVars>>

\* return inbox, results
ReturnRun ==
    /\ pc = "loop" /\ idx >= Len(inbox)
    /\ pc' = "ready"
    /\ UNCHANGED <<inbox, prompts, results, idx, run, inbox0, last_envs, overwrote,
                   interpVars, gatewayVars, threadVars, appVars>>

NextPipeline == StartRun \/ ProcessEmail \/ ReturnRun
SpecPipeline == InitPipeline /\ [][NextPipeline]_vars

(***************************************************************************)
(* Properties of the ingestion pipeline.                                   *)
(***************************************************************************)
IsErrorRecord(r) ==
    HasKey(r, K_error) /\ ~HasKey(r, K_category) /\ ~HasKey(r, K_action_items)
IsSuccessRecord(r) ==
    HasKey(r, K_category) /\ HasKey(r, K_action_items) /\ ~HasKey(r, K_error)

\* The email holds exactly the category and the action items of record r.
HoldsRecord(email, r) ==
    /\ IsDict(email)
    /\ HasKey(email, K_category) /\ HasKey(email, K_action_items)
    /\ DictGet(email, K_category, None) = DictGet(r, K_category, None)
    /\ DictGet(email, K_action_items, None) = DictGet(r, K_action_items, None)

\* C1: a run over N emails returns exactly N result entries, the k-th with
\* email_idx = k, each either a success record or an error record, never both
\* and never neither.
C1_OneRecordPerEmail ==
    (pc \in {"loop", "ready"} /\ run >= 1) =>
        /\ Len(results) = idx
        /\ pc = "ready" => Len(results) = Len(inbox0)
        /\ \A k \in 1..Len(results) :
              /\ DictGet(results[k], K_email_idx, None) = JInt(k - 1)
              /\ IsErrorRecord(results[k]) # IsSuccessRecord(results[k])

\* C1's case: a run over two emails has returned, the first email failed and the
\* second succeeded.
C1_Witness ==
    /\ pc = "ready" /\ run = 1 /\ Len(inbox0) = 2 /\ Len(results) = 2
    /\ IsErrorRecord(results[1]) /\ IsSuccessRecord(results[2])

\* The templates and the email let both interpreters build their prompts: no
\* exception arises outside the gateway.
WellFormed(prm, email) ==
    /\ IsDict(prm)
    /\ \A key \in {K_categorize, K_extract_actions} :
          /\ HasKey(prm, key)
          /\ IsDict(DictGet(prm, key, None))
          /\ HasKey(DictGet(prm, key, None), K_template)
          /\ IsStr(DictGet(DictGet(prm, key, None), K_template, None))
    /\ IsDict(email)
    /\ IsStr(DictGet(email, K_body, JStr(<<>>)))

\* Some interpreter call on the email raises: the email is malformed or a
\* template is no str (the calls are reached: both templates are found).
InterpreterRaises(prm, email) ==
    /\ ~TemplateOf(prm, K_categorize).raised
    /\ ~TemplateOf(prm, K_extract_actions).raised
    /\ ~WellFormed(prm, email)

\* C2, one iteration: when an interpreter call raises the inbox is left as it
\* was and an error record for the index is appended; a success record's values
\* are the ones written to its email, and no other email changes.
IterationKeepsFailed ==
    (pc = "loop" /\ idx' = idx + 1) =>
        /\ Len(results') = idx'
        /\ SubSeq(results', 1, idx) = results
        /\ DictGet(results'[idx'], K_email_idx, None) = JInt(idx)
        /\ InterpreterRaises(prompts, inbox[idx']) =>
              IsErrorRecord(results'[idx']) /\ inbox' = inbox
        /\ IsErrorRecord(results'[idx']) => inbox' = inbox
        /\ IsSuccessRecord(results'[idx']) =>
              /\ HoldsRecord(inbox'[idx'], results'[idx'])
              /\ \A j \in 1..Len(inbox) : j # idx' => inbox'[j] = inbox[j]

\* C2, the loop: it ends only after the last email, whatever failed before.
LoopEndsAfterLast ==
    (pc = "loop" /\ pc' = "ready") => (idx = Len(inbox) /\ Len(results) = Len(inbox))

\* C2: an exception in either interpreter call leaves the email's category and
\* action_items as they were, appends an error record for its index and does not
\* stop the loop; every email that succeeded holds the values of its record.
C2_FailureLeavesEmail == [][IterationKeepsFailed /\ LoopEndsAfterLast]_vars

\* C2's case: categorize_email succeeded and extract_actions raised (the
\* extract_actions template is no str) on the first of two emails, which still
\* holds its old category; the second email was processed after it.
C2_Witness ==
    /\ pc = "ready" /\ run = 1 /\ Len(results) = 2
    /\ prompts = BadActTemplatePrompts
    /\ inbox0[1] = ProcessedEmail /\ inbox[1] = ProcessedEmail
    /\ IsErrorRecord(results[1])
    /\ DictGet(results[2], K_email_idx, None) = JInt(1)

\* C3: after a second run on the first run's inbox, every successfully processed
\* email holds the second run's outputs alone, the inbox still has N emails and
\* the second run's results have N entries.
C3_SecondRunOverwrites ==
    (pc = "ready" /\ run >= 2) =>
        /\ Len(inbox) = Len(inbox0)
        /\ Len(results) = Len(inbox0)
        /\ \A k \in 1..Len(results) :
              IsSuccessRecord(results[k]) => HoldsRecord(inbox[k], results[k])

\* C3's case: the second run has returned and replaced values the first run
\* wrote by different ones.
C3_Witness ==
    /\ pc = "ready" /\ run = 2 /\ overwrote
    /\ Len(inbox0) = 2
    /\ inbox0[1] = FreshEmail
    /\ \A k \in 1..2 : IsSuccessRecord(results[k])

\* The str call_llm returns when the call fails with message msg.
ErrorString(msg) == ERROR_PREFIX \o msg

\* C10: a gateway failure during ingestion produces no error record: when the
\* inputs are well formed the email is a success, its category is
\* {"text": <error string>} and its action_items a non-empty sequence of the
\* error text; error records arise only from exceptions outside the gateway.
C10_GatewayFailureIsSuccess ==
    (pc \in {"loop", "ready"} /\ idx >= 1 /\ last_envs # <<>>) =>
        /\ IsErrorRecord(results[idx]) => ~WellFormed(prompts, inbox[idx])
        /\ (WellFormed(prompts, inbox[idx]) /\ ExceptionDuringCall(last_envs[1])) =>
              /\ IsSuccessRecord(results[idx])
              /\ DictGet(inbox[idx], K_category, None)
                    = TextWrapper(ErrorString(last_envs[1].errmsg))
        /\ (WellFormed(prompts, inbox[idx]) /\ ExceptionDuringCall(last_envs[2])) =>
              /\ IsSuccessRecord(results[idx])
              /\ DictGet(inbox[idx], K_action_items, None)
                    = JArr(<<JStr(ErrorString(last_envs[2].errmsg))>>)

\* C10's case: both gateway calls failed on an email that held a category and
\* action items, and the email now holds the error text in both.
C10_Witness ==
    /\ pc = "loop" /\ run = 1 /\ idx = 1
    /\ last_envs = <<FailEnv, FailEnv>>
    /\ inbox0[1] = ProcessedEmail
    /\ IsSuccessRecord(results[1])
    /\ DictGet(inbox[1], K_category, None) = TextWrapper(ErrorString(ErrMsg))
    /\ DictGet(inbox[1], K_action_items, None) = JArr(<<JStr(ErrorString(ErrMsg))>>)

(***************************************************************************)
(* SpecThread: one call of collect_thread_context on every short inbox.    *)
(***************************************************************************)
Message(from, date, tid) ==
    Dict(<< <<K_from, JStr(from)>>, <<K_date, JStr(date)>>,
            <<K_body, JStr(<<"h", "i">>)>>, <<K_thread_id, tid>> >>)
\* A message of no thread has no thread_id entry.
LoneMessage(from, date) ==
    Dict(<< <<K_from, JStr(from)>>, <<K_date, JStr(date)>>, <<K_body, JStr(<<"h", "i">>)>> >>)

ThreadIds == {JStr(<<"t">>), JStr(<<"u">>)}
\* Two senders; the first one's message carries the later date.
Senders == { <<<<"a">>, <<"2">>>>, <<<<"b">>, <<"1">>>> }
ThreadMessages ==
    {Message(p[1], p[2], tid) : p \in Senders, tid \in ThreadIds}
        \cup {LoneMessage(p[1], p[2]) : p \in Senders}

InitThread ==
    /\ t_inbox \in UNION {[1..n -> ThreadMessages] : n \in 0..MaxThread}
    /\ thread_id \in ThreadIds \cup {None, JStr(<<>>)}
    /\ thread_ctx = NotRun
    /\ InterpParked /\ GatewayParked /\ PipeParked /\ AppParked

Collect ==
    /\ thread_ctx = NotRun
    /\ thread_ctx' = collect_thread_context(t_inbox, thread_id)
    /\ UNCHANGED <<t_inbox, thread_id, interpVars, gatewayVars, pipeVars, appVars>>

NextThread == Collect
SpecThread == InitThread /\ [][NextThread]_vars

\* The blocks of the messages of box from position i on whose thread_id is tid.
RECURSIVE BlocksFrom(_, _, _)
BlocksFrom(box, tid, i) ==
    IF i > Len(box) THEN <<>>
    ELSE (IF DictGet(box[i], K_thread_id, None) = tid THEN <<ThreadBlock(box[i])>> ELSE <<>>)
            \o BlocksFrom(box, tid, i + 1)

NoMatch(box, tid) == \A i \in 1..Len(box) : DictGet(box[i], K_thread_id, None) # tid

\* C7: collect_thread_context returns None exactly when thread_id is absent or
\* empty or no message has it; otherwise a non-empty str of one block per matching
\* message and of no other, in the inbox's stored order.
C7_ContextIsMatchingBlocks ==
    thread_ctx # NotRun =>
        /\ ~thread_ctx.raised
        /\ (thread_ctx.val = None) <=> (~Truthy(thread_id) \/ NoMatch(t_inbox, thread_id))
        /\ thread_ctx.val # None =>
              /\ IsStr(thread_ctx.val)
              /\ thread_ctx.val.v # <<>>
              /\ thread_ctx.val.v = Join(<<"\n">>, BlocksFrom(t_inbox, thread_id, 1))

\* C7's case: two messages of the thread with another message between them, the
\* later-dated one stored first, and its block first in the context.
C7_Witness ==
    /\ thread_ctx # NotRun
    /\ thread_id = JStr(<<"t">>)
    /\ t_inbox = <<Message(<<"a">>, <<"2">>, JStr(<<"t">>)),
                   Message(<<"b">>, <<"1">>, JStr(<<"u">>)),
                   Message(<<"b">>, <<"1">>, JStr(<<"t">>))>>
    /\ thread_ctx.val.v = ThreadBlock(t_inbox[1]) \o <<"\n">> \o ThreadBlock(t_inbox[3])

(***************************************************************************)
(* The application: sessions of the Streamlit script on the three files.   *)
(* A run of the script loads the three documents whole and handles at most *)
(* one button; what a handler saves is the session's in-memory document.   *)
(* Another session may run between a session's load and its handler.  The  *)
(* urgent filter only narrows which email can be selected and is left out. *)
(***************************************************************************)
\* load_json: the document the file holds.
load_json(file) == file
\* save_json: the file is replaced by the document.
save_json(file, obj) == obj

\* The mutant: the list is replaced by the one record.
ListAppendReplacing(doc, key, rec) == DictSet(doc, key, JArr(<<rec>>))
\* doc[key].append(rec)
ListAppend(doc, key, rec) == DictSet(doc, key, JArr(Append(DictGet(doc, key, None).v, rec)))

\* str(datetime.utcnow()) when the clock reads n.
utcnow(n) == JStr(<<DigitSeq[n + 1]>>)

AppPrompts ==
    Dict(<< <<K_categorize, Entry(<<"C">>, JStr(<<"c", "a", "t">>))>>,
            <<K_extract_actions, Entry(<<"A">>, JStr(<<"a", "c", "t">>))>>,
            <<K_draft_reply, Entry(<<"D">>, JStr(<<"d", "r">>))>>,
            <<K_chat, Entry(<<"Q">>, JStr(<<"c", "h">>))>> >>)
AppEmail(from, date) ==
    Dict(<< <<K_from, JStr(from)>>, <<K_subject, JStr(<<"s">>)>>, <<K_date, JStr(date)>>,
            <<K_body, JStr(<<"h", "i">>)>>, <<K_archived, PyFalse>> >>)
AppInbox ==
    <<AppEmail(<<"a">>, <<"2">>),
      DictSet(AppEmail(<<"b">>, <<"1">>), K_thread_id, JStr(<<"t">>))>>
EmptyResults == Dict(<< <<K_drafts, JArr(<<>>)>>, <<K_analyses, JArr(<<>>)>> >>)

Sessions == {1, 2}
AppEnvs == {MockEnv, FailEnv}
Questions == {<<"q">>, <<" ">>}
PromptTexts == {<<"P">>}

Idle(handler) ==
    [pc |-> "idle", ran |-> handler, prompts |-> Parked, inbox |-> Parked, results |-> Parked]

\* The updates that have been in the files: archived emails, the time stamps of
\* the analyses and of the drafts.
Times(log) == {DictGet(log[k], K_time, None) : k \in 1..Len(log)}
Analyses(res) == DictGet(res, K_analyses, None).v
Drafts(res) == DictGet(res, K_drafts, None).v
Archived(box) == {k \in 1..Len(box) : DictGet(box[k], K_archived, None) = PyTrue}
Persist(seen, f) ==
    [archived |-> seen.archived \cup Archived(f.inbox),
     analyses |-> seen.analyses \cup Times(Analyses(f.results)),
     drafts |-> seen.drafts \cup Times(Drafts(f.results))]

InitApp(active) ==
    /\ files = [prompts |-> AppPrompts, inbox |-> AppInbox, results |-> EmptyResults]
    /\ sess = [s \in Sessions |-> Idle("none")]
    /\ sessions = active
    /\ clock = 0
    /\ persisted = [archived |-> {}, analyses |-> {}, drafts |-> {}]
    /\ InterpParked /\ GatewayParked /\ ThreadParked /\ PipeParked

\* The clock ticks at every step of a script; the steps that are followed.
OpsBound == IF Cardinality(sessions) > 1 THEN MaxRaceOps ELSE MaxOps

\* The script starts: the three loads.
Load(s) ==
    /\ s \in sessions /\ sess[s].pc = "idle" /\ clock < OpsBound
    /\ sess' = [sess EXCEPT ![s] = [pc |-> "loaded", ran |-> "load",
                                    prompts |-> load_json(files.prompts),
                                    inbox |-> load_json(files.inbox),
                                    results |-> load_json(files.results)]]
    /\ clock' = clock + 1
    /\ UNCHANGED <<files, sessions, persisted, interpVars, gatewayVars, threadVars, pipeVars>>

\* The end of a handler that has left the files as f.
Handled(s, handler, f) ==
    /\ files' = f
    /\ sess' = [sess EXCEPT ![s] = Idle(handler)]
    /\ clock' = clock + 1
    /\ persisted' = Persist(persisted, f)
    /\ UNCHANGED <<sessions, interpVars, gatewayVars, threadVars, pipeVars>>

Loaded(s) == s \in sessions /\ sess[s].pc = "loaded" /\ clock < OpsBound
Selectable(s) == 0..(Len(sess[s].inbox) - 1)
SaveInbox(f, box) == [f EXCEPT !.inbox = save_json(@, box)]
\* The mutant: the save keeps the analyses of the file that the document lacks.
RECURSIVE Missing(_, _)
Missing(old, new) ==
    IF old = <<>> THEN <<>>
    ELSE (IF \E k \in 1..Len(new) : DictGet(new[k], K_time, None) = DictGet(Head(old), K_time, None)
          THEN <<>> ELSE <<Head(old)>>)
            \o Missing(Tail(old), new)
SaveResultsMerging(f, res) ==
    [f EXCEPT !.results =
        DictSet(res, K_analyses,
                JArr(Missing(DictGet(@, K_analyses, None).v, DictGet(res, K_analyses, None).v)
                     \o DictGet(res, K_analyses, None).v))]
SaveResults(f, res) == [f EXCEPT !.results = save_json(@, res)]
SavePrompts(f, prm) == [f EXCEPT !.prompts = save_json(@, prm)]
PromptTemplate(prm, key) == Subscript(Subscript(prm, key).val, K_template).val

ArchiveEmail(s) ==
    /\ Loaded(s)
    /\ \E i \in Selectable(s) :
          Handled(s, "archive",
                  SaveInbox(files, [sess[s].inbox EXCEPT ![i + 1] = DictSet(@, K_archived, PyTrue)]))

\* results["analyses"].append(...) for every record of the run.
RECURSIVE AppendBatch(_, _, _)
AppendBatch(res, rs, now) ==
    IF rs = <<>> THEN res
    ELSE AppendBatch(ListAppend(res, K_analyses,
                                Dict(<< <<K_time, now>>,
                                        <<K_type, JStr(<<"i", "n", "g", "e", "s", "t", "_", "b", "a", "t", "c", "h">>)>>,
                                        <<K_result, Head(rs)>> >>)),
                     Tail(rs), now)
Ingested(s, r) ==
    Handled(s, "ingest",
            SaveResults(SaveInbox(files, r.inbox), AppendBatch(sess[s].results, r.results, utcnow(clock))))
RunIngestion(s) ==
    /\ Loaded(s)
    /\ \E e \in AppEnvs :
          Ingested(s, run_ingestion_pipeline(sess[s].inbox, sess[s].prompts,
                                             [k \in 1..Len(sess[s].inbox) |-> <<e, e>>]))

ChatPrompt(template, email, question) ==
    template.v \o <<"\n", "\n", "E", "M", "A", "I", "L", " ", "C", "O", "N", "T", "E", "N", "T", ":", "\n">>
        \o Subscript(email, K_body).val.v
        \o <<"\n", "\n", "U", "S", "E", "R", " ", "Q", "U", "E", "S", "T", "I", "O", "N", ":", "\n">>
        \o question
ChatRecord(i, question, output, now) ==
    Dict(<< <<K_time, now>>, <<K_type, JStr(K_chat)>>, <<K_email_idx, JInt(i)>>,
            <<K_question, JStr(question)>>, <<K_output, JStr(output)>> >>)
AskQuestion(s) ==
    /\ Loaded(s)
    /\ \E i \in Selectable(s), question \in Questions, e \in AppEnvs :
          IF Strip(question) = <<>>
          THEN Handled(s, "chat", files)
          ELSE Handled(s, "chat",
                       SaveResults(files,
                           ListAppend(sess[s].results, K_analyses,
                               ChatRecord(i, question,
                                   call_llm(ChatPrompt(PromptTemplate(sess[s].prompts, K_chat),
                                                       sess[s].inbox[i + 1], question), e).val,
                                   utcnow(clock)))))

ActionRecord(type, i, output, now) ==
    Dict(<< <<K_time, now>>, <<K_type, JStr(type)>>, <<K_email_idx, JInt(i)>>,
            <<K_output, output>> >>)
\* The two saves of Categorize and of Extract Action Items; an exception of the
\* interpreter ends the script before them.
ActionDone(s, handler, i, key, o) ==
    IF o.raised THEN Handled(s, handler, files)
    ELSE Handled(s, handler,
                 SaveResults(SaveInbox(files, [sess[s].inbox EXCEPT ![i + 1] = DictSet(@, key, o.val)]),
                             ListAppend(sess[s].results, K_analyses,
                                        ActionRecord(handler, i, o.val, utcnow(clock)))))
RunCategorize(s) ==
    /\ Loaded(s)
    /\ \E i \in Selectable(s), e \in AppEnvs :
          ActionDone(s, K_categorize, i, K_category,
                     categorize_email(sess[s].inbox[i + 1],
                                      PromptTemplate(sess[s].prompts, K_categorize), e))
RunExtract(s) ==
    /\ Loaded(s)
    /\ \E i \in Selectable(s), e \in AppEnvs :
          ActionDone(s, K_extract_actions, i, K_action_items,
                     extract_actions(sess[s].inbox[i + 1],
                                     PromptTemplate(sess[s].prompts, K_extract_actions), e))

DraftRecord(i, email, body, now) ==
    Dict(<< <<K_time, now>>, <<K_email_idx, JInt(i)>>,
            <<K_subject, JStr(<<"R", "e", ":", " ">> \o Str(Subscript(email, K_subject).val))>>,
            <<K_body, body>>,
            <<K_metadata, Dict(<< <<K_category, DictGet(email, K_category, None)>>,
                                  <<K_action_items, DictGet(email, K_action_items, None)>> >>)>> >>)
DraftDone(s, i, o) ==
    IF o.raised THEN Handled(s, "draft", files)
    ELSE Handled(s, "draft",
                 SaveResults(files, ListAppend(sess[s].results, K_drafts,
                                               DraftRecord(i, sess[s].inbox[i + 1], o.val, utcnow(clock)))))
RunDraft(s) ==
    /\ Loaded(s)
    /\ \E i \in Selectable(s), e \in AppEnvs :
          DraftDone(s, i,
                    draft_reply(sess[s].inbox[i + 1], PromptTemplate(sess[s].prompts, K_draft_reply), e,
                                collect_thread_context(sess[s].inbox,
                                    DictGet(sess[s].inbox[i + 1], K_thread_id, None)).val))

SavePrompt(s) ==
    /\ Loaded(s)
    /\ \E chosen \in {K_categorize, K_chat}, text \in PromptTexts :
          Handled(s, "prompt",
                  SavePrompts(files, DictSet(sess[s].prompts, chosen,
                                             DictSet(Subscript(sess[s].prompts, chosen).val,
                                                     K_template, JStr(text)))))

NextApp ==
    \E s \in Sessions :
        \/ Load(s)
        \/ ArchiveEmail(s)
        \/ RunIngestion(s)
        \/ AskQuestion(s)
        \/ RunCategorize(s)
        \/ RunExtract(s)
        \/ RunDraft(s)
        \/ SavePrompt(s)

InitSingle == InitApp({1})
InitTwo == InitApp(Sessions)
SpecSingle == InitSingle /\ [][NextApp]_vars
SpecTwo == InitTwo /\ [][NextApp]_vars

IsPrefix(p, q) == Len(p) <= Len(q) /\ SubSeq(q, 1, Len(p)) = p

\* Session s ends the handler named handler in this step.
Ends(s, handler) ==
    sess[s].pc = "loaded" /\ sess'[s].pc = "idle" /\ sess'[s].ran = handler

\* C9: in a single session every step leaves the persisted analyses and the
\* persisted drafts as prefixes of the new ones, and an ingestion run adds one
\* analysis record per email of the inbox.
C9_LogsAppendOnly ==
    [][/\ IsPrefix(Analyses(files.results), Analyses(files'.results))
       /\ IsPrefix(Drafts(files.results), Drafts(files'.results))
       /\ Ends(1, "ingest") =>
             Len(Analyses(files'.results)) = Len(Analyses(files.results)) + Len(files.inbox)]_vars

\* C9's case: an ingestion run, then a chat and a draft, all persisted.
C9_Witness ==
    /\ sessions = {1}
    /\ Len(Drafts(files.results)) = 1
    /\ Len(Analyses(files.results)) = Len(files.inbox) + 1
    /\ \A k \in 1..Len(files.inbox) :
          DictGet(Analyses(files.results)[k], K_type, None).v = <<"i", "n", "g", "e", "s", "t", "_", "b", "a", "t", "c", "h">>
    /\ DictGet(Analyses(files.results)[Len(files.inbox) + 1], K_type, None).v = K_chat

\* The time stamps of the log records of the file that the snapshot lacks.
Unseen(file_log, snapshot_log) == Times(file_log) \ Times(snapshot_log)

\* C8: a handler's save replaces the persisted document by the session's own: the
\* records and the archive flags the file had got since the session's load are
\* not in the document after the save.
C8_LastWriterWins ==
    [][\A s \in sessions :
          (sess[s].pc = "loaded" /\ sess'[s].pc = "idle") =>
             /\ files'.results # files.results =>
                   /\ Unseen(Analyses(files.results), Analyses(sess[s].results))
                         \cap Times(Analyses(files'.results)) = {}
                   /\ Unseen(Drafts(files.results), Drafts(sess[s].results))
                         \cap Times(Drafts(files'.results)) = {}
             /\ (files'.inbox # files.inbox /\ sess'[s].ran # "archive") =>
                   Archived(files'.inbox) = Archived(sess[s].inbox)]_vars

\* C8's case: of two sessions, an analysis record that one has saved is not in
\* the results file after the other's save.
C8_Witness ==
    /\ sessions = {1, 2}
    /\ \E t \in persisted.analyses : t \notin Times(Analyses(files.results))

\* The other updates of C8 that are lost in the same way.
LostArchiveFlag == \E k \in persisted.archived : k \notin Archived(files.inbox)
LostDraft == \E t \in persisted.drafts : t \notin Times(Drafts(files.results))

====
